---- MODULE Spec2Model ----
(***************************************************************************)
(* prompt-vault-processor: the two vault stores (the hash-addressed        *)
(* FilesystemVault of vault.go and the path-addressed FilesystemBackend of *)
(* storage/filesystem.go) and the attribute offload processor              *)
(* (vaultProcessor.ConsumeTraces / vaultSpan).                             *)
(*                                                                         *)
(* Go strings and byte slices are TLA+ strings; string(b) and []byte(s)    *)
(* keep the bytes, so both are the same value here.                        *)
(***************************************************************************)
EXTENDS Integers, Sequences, FiniteSets, TLC

(***************************************************************************)
(* Bounds of the model.                                                    *)
(***************************************************************************)
\* longest payload / attribute value, in bytes
MaxLen == 1
\* number of calendar days (UTC) the run spans
MaxDay == 2
\* number of store-level operations in one run of SpecStore / SpecTamper
MaxOps == 3
\* spans in one batch, attributes on one span
MaxSpans == 2
MaxAttrs == 2
\* events on one span
MaxEvents == 2

Bytes == {"a", "b"}

RECURSIVE StringsUpTo(_)
StringsUpTo(n) ==
    IF n = 0 THEN {""}
    ELSE LET S == StringsUpTo(n - 1) IN S \cup {s \o c : s \in S, c \in Bytes}

Payloads == StringsUpTo(MaxLen)

\* Go's nil error / nil byte slice
NoErr == "nil"
NoData == "<nil>"

(***************************************************************************)
(* sha256.Sum256 followed by its lowercase hex rendering (fmt "%x" in      *)
(* vault.go, hex.EncodeToString in filesystem.go: the same text).  The     *)
(* digest is modelled as collision-free: a text that depends on every byte *)
(* of the data and on nothing else.                                        *)
(***************************************************************************)
HexByte(c) == IF c = "a" THEN "61" ELSE IF c = "b" THEN "62" ELSE "3f"

RECURSIVE HexEncode(_)
HexEncode(data) ==
    IF Len(data) = 0 THEN ""
    ELSE HexByte(SubSeq(data, 1, 1)) \o HexEncode(SubSeq(data, 2, Len(data)))

HexSum256(data) == "sha" \o HexEncode(data)

(***************************************************************************)
(* os.WriteFile: open with O_CREATE|O_TRUNC, write, close.  A fault is one *)
(* of: none; "mkdir" (MkdirAll fails); "open" (the file cannot be opened,  *)
(* nothing is created); "write" (the file was created or truncated and     *)
(* only the first n bytes reached it before the error).                    *)
(***************************************************************************)
NoFault == [kind |-> "none", n |-> 0]

Faults(data) ==
    {NoFault, [kind |-> "mkdir", n |-> 0], [kind |-> "open", n |-> 0]}
        \cup {[kind |-> "write", n |-> k] : k \in 0..(Len(data) - 1)}

\* the map f with f[path] set to data
WriteAt(f, path, data) ==
    [x \in (DOMAIN f) \cup {path} |-> IF x = path THEN data ELSE f[x]]

(***************************************************************************)
(* FilesystemVault (vault.go).  A file of the vault is <<day, name>>: the  *)
(* date partition time.Now().UTC().Format("2006/01/02") and the file name. *)
(***************************************************************************)
VaultPrefix == "vault://"

\* a Store whose reference names the date partition it wrote to
VaultStore_DatedRef(files, now, content, fault) ==
    LET hexHash == HexSum256(content)
        path == <<now, hexHash \o ".vault">>
        ref == VaultPrefix \o (IF now = 1 THEN "" ELSE "2/") \o hexHash
    IN  IF fault.kind # "none" THEN [files |-> files, ref |-> "", err |-> "write vault file"]
        ELSE [files |-> WriteAt(files, path, content), ref |-> ref, err |-> NoErr]

\* a Store without the os.Stat check: it always writes
VaultStore_NoDedup(files, now, content, fault) ==
    LET hexHash == HexSum256(content)
        path == <<now, hexHash \o ".vault">>
        ref == VaultPrefix \o hexHash
    IN  IF fault.kind = "mkdir"
        THEN [files |-> files, ref |-> "", err |-> "create date dir"]
        ELSE IF fault.kind = "open"
        THEN [files |-> files, ref |-> "", err |-> "write vault file"]
        ELSE IF fault.kind = "write"
        THEN [files |-> WriteAt(files, path, SubSeq(content, 1, fault.n)),
              ref |-> "", err |-> "write vault file"]
        ELSE [files |-> WriteAt(files, path, content), ref |-> ref, err |-> NoErr]

VaultStore(files, now, content, fault) ==
    LET hexHash == HexSum256(content)
        path == <<now, hexHash \o ".vault">>
        ref == VaultPrefix \o hexHash
    IN  IF fault.kind = "mkdir"
        THEN [files |-> files, ref |-> "", err |-> "create date dir"]
        ELSE IF path \in DOMAIN files
        THEN [files |-> files, ref |-> ref, err |-> NoErr]
        ELSE IF fault.kind = "open"
        THEN [files |-> files, ref |-> "", err |-> "write vault file"]
        ELSE IF fault.kind = "write"
        THEN [files |-> WriteAt(files, path, SubSeq(content, 1, fault.n)),
              ref |-> "", err |-> "write vault file"]
        ELSE [files |-> WriteAt(files, path, content), ref |-> ref, err |-> NoErr]

\* filepath.Walk visits the date directories in lexical = chronological
\* order; the callback stops at the first regular file with the name.
\* <<>> when no file has the name.
VaultFind(files, ref) ==
    LET hexHash == IF Len(ref) > 8 /\ SubSeq(ref, 1, 8) = VaultPrefix
                   THEN SubSeq(ref, 9, Len(ref))
                   ELSE ref
        matches == {p \in DOMAIN files : p[2] = hexHash \o ".vault"}
    IN  IF matches = {} THEN <<>>
        ELSE CHOOSE p \in matches : \A q \in matches : p[1] <= q[1]

VaultRetrieve(files, ref) ==
    LET found == VaultFind(files, ref)
    IN  IF found = <<>>
        THEN [data |-> NoData, err |-> "vault ref not found"]
        ELSE [data |-> files[found], err |-> NoErr]

(***************************************************************************)
(* Paths of the FilesystemBackend: a path below basePath is the sequence   *)
(* of its segments, as filepath.Join / filepath.Clean leave them.          *)
(***************************************************************************)
RECURSIVE SplitAt(_, _, _)
SplitAt(s, i, cur) ==
    IF i > Len(s) THEN <<cur>>
    ELSE IF SubSeq(s, i, i) = "/" THEN <<cur>> \o SplitAt(s, i + 1, "")
    ELSE SplitAt(s, i + 1, cur \o SubSeq(s, i, i))

RECURSIVE CleanSegs(_, _)
CleanSegs(segs, acc) ==
    IF segs = <<>> THEN acc
    ELSE LET h == Head(segs) IN
         IF h = "" \/ h = "." THEN CleanSegs(Tail(segs), acc)
         ELSE IF h = ".."
         THEN CleanSegs(Tail(segs),
                        IF acc = <<>> THEN acc ELSE SubSeq(acc, 1, Len(acc) - 1))
         ELSE CleanSegs(Tail(segs), Append(acc, h))

RECURSIVE JoinElems(_)
JoinElems(elems) ==
    IF elems = <<>> THEN ""
    ELSE IF Len(elems) = 1 THEN Head(elems)
    ELSE Head(elems) \o "/" \o JoinElems(Tail(elems))

\* filepath.Join(basePath, elems...) relative to basePath
JoinPath(elems) == CleanSegs(SplitAt(JoinElems(elems), 1, ""), <<>>)

\* filepath.Dir
DirOf(path) == IF path = <<>> THEN <<>> ELSE SubSeq(path, 1, Len(path) - 1)

Prefixes(path) == {SubSeq(path, 1, k) : k \in 0..Len(path)}

(***************************************************************************)
(* FilesystemBackend (storage/filesystem.go).                              *)
(***************************************************************************)
FsPrefix == "promptvault://fs/"

ZeroReference == [URI |-> "", Checksum |-> "", Encrypted |-> FALSE, SizeBytes |-> 0]

\* a Store that creates the directory of the trace and the span only, not
\* the directories an attribute key with separators adds
BackendStore_ShallowMkdir(files, dirs, traceID, spanID, attrKey, data, fault) ==
    LET filePath == JoinPath(<<traceID, spanID, attrKey>>)
        spanDir == JoinPath(<<traceID, spanID>>)
        mkdirFails == fault.kind = "mkdir" \/ Prefixes(spanDir) \cap DOMAIN files # {}
        dirs1 == dirs \cup Prefixes(spanDir)
        ref == [URI |-> FsPrefix \o traceID \o "/" \o spanID \o "/" \o attrKey,
                Checksum |-> HexSum256(data), Encrypted |-> FALSE,
                SizeBytes |-> Len(data)]
        writeErr == "failed to write vault object"
    IN  IF mkdirFails
        THEN [files |-> files, dirs |-> dirs, ref |-> ZeroReference,
              err |-> "failed to create object directory"]
        ELSE IF filePath \in dirs1 \/ DirOf(filePath) \notin dirs1 \/ fault.kind = "open"
        THEN [files |-> files, dirs |-> dirs1, ref |-> ZeroReference, err |-> writeErr]
        ELSE IF fault.kind = "write"
        THEN [files |-> WriteAt(files, filePath, SubSeq(data, 1, fault.n)),
              dirs |-> dirs1, ref |-> ZeroReference, err |-> writeErr]
        ELSE [files |-> WriteAt(files, filePath, data), dirs |-> dirs1,
              ref |-> ref, err |-> NoErr]

BackendStore(files, dirs, traceID, spanID, attrKey, data, fault) ==
    LET filePath == JoinPath(<<traceID, spanID, attrKey>>)
        fileDir == DirOf(filePath)
        mkdirFails == fault.kind = "mkdir" \/ Prefixes(fileDir) \cap DOMAIN files # {}
        dirs1 == dirs \cup Prefixes(fileDir)
        checksum == HexSum256(data)
        ref == [URI |-> FsPrefix \o traceID \o "/" \o spanID \o "/" \o attrKey,
                Checksum |-> checksum, Encrypted |-> FALSE, SizeBytes |-> Len(data)]
        writeErr == "failed to write vault object"
    IN  IF mkdirFails
        THEN [files |-> files, dirs |-> dirs, ref |-> ZeroReference,
              err |-> "failed to create object directory"]
        ELSE IF filePath \in dirs1 \/ fault.kind = "open"
        THEN [files |-> files, dirs |-> dirs1, ref |-> ZeroReference, err |-> writeErr]
        ELSE IF fault.kind = "write"
        THEN [files |-> WriteAt(files, filePath, SubSeq(data, 1, fault.n)),
              dirs |-> dirs1, ref |-> ZeroReference, err |-> writeErr]
        ELSE [files |-> WriteAt(files, filePath, data), dirs |-> dirs1,
              ref |-> ref, err |-> NoErr]

BackendRetrieve(files, ref) ==
    LET scanned == Len(ref.URI) > Len(FsPrefix)
                     /\ SubSeq(ref.URI, 1, Len(FsPrefix)) = FsPrefix
        path == SubSeq(ref.URI, Len(FsPrefix) + 1, Len(ref.URI))
        filePath == JoinPath(<<path>>)
    IN  IF ~scanned
        THEN [data |-> NoData, err |-> "invalid vault reference URI"]
        ELSE IF filePath \notin DOMAIN files
        THEN [data |-> NoData, err |-> "failed to read vault object"]
        ELSE IF HexSum256(files[filePath]) # ref.Checksum
        THEN [data |-> NoData, err |-> "checksum mismatch"]
        ELSE [data |-> files[filePath], err |-> NoErr]

(***************************************************************************)
(* State.                                                                  *)
(***************************************************************************)
VARIABLES
    vfiles,     \* FilesystemVault: <<day, file name>> -> bytes
    bfiles,     \* FilesystemBackend: path -> bytes
    bdirs,      \* FilesystemBackend: the directories below basePath
    today,      \* the UTC day time.Now() falls in
    ops,        \* store-level operations done so far
    last,       \* the last store-level operation with its arguments, the fault
                \* it met and its results
    issued,     \* every reference a successful Store has returned, with its payload
    altered,    \* stored objects whose bytes were altered from outside
    cfg,        \* vaultProcessor.config.Vault, with keysSet
    pc,         \* where ConsumeTraces stands
    input,      \* the batch as ConsumeTraces received it
    td,         \* the batch, mutated in place
    spanIdx,    \* the span ConsumeTraces is at
    toVault,    \* vaultSpan's pending entries
    entryIdx,   \* the entry the offload loop is at
    stores,     \* the Store calls vaultSpan has made, with their results
    result,     \* what ConsumeTraces returned
    sink,       \* the batches handed to nextConsumer, and what it returned
    calls       \* the Store / Retrieve calls running concurrently, step by step

storeVars == <<vfiles, bfiles, bdirs, today, ops, last, issued, altered>>

procVars == <<cfg, pc, input, td, spanIdx, toVault, entryIdx, stores, result, sink>>

vars == <<vfiles, bfiles, bdirs, today, ops, last, issued, altered,
          cfg, pc, input, td, spanIdx, toVault, entryIdx, stores, result, sink,
          calls>>

TraceIDs == {"", "t"}
SpanIDs == {"s"}
\* a span attribute key and an event-scoped key (spanID/event_N/attrKey)
AttrKeys == {"p", "s/event_0/p"}

NoOp == [op |-> "none", backend |-> "none", content |-> "", ref |-> "",
         err |-> NoErr, data |-> NoData, args |-> <<>>, fault |-> "none"]

\* the empty map
EmptyMap == [x \in {} |-> ""]

\* createDefaultConfig().Vault
createDefaultConfig ==
    [keys |-> {"gen_ai.prompt", "gen_ai.completion", "gen_ai.system_instructions",
               "gen_ai.input.messages", "gen_ai.output.messages"},
     threshold |-> 0,
     mode |-> "replace_with_ref",
     backend |-> "filesystem"]

\* newVaultProcessor: no batch in progress
ProcIdle(c) ==
    /\ cfg = c
    /\ pc = "idle"
    /\ input = <<>>
    /\ td = <<>>
    /\ spanIdx = 1
    /\ toVault = <<>>
    /\ entryIdx = 1
    /\ stores = <<>>
    /\ result = NoErr
    /\ sink = <<>>

StoreEmpty ==
    /\ vfiles = EmptyMap
    /\ bfiles = EmptyMap
    /\ bdirs = {<<>>}
    /\ today = 1
    /\ ops = 0
    /\ last = NoOp
    /\ issued = {}
    /\ altered = {}

\* no concurrent calls are in progress
NoCalls == <<>>

InitStore == StoreEmpty /\ ProcIdle(createDefaultConfig) /\ calls = NoCalls

\* the checksum a vault:// reference carries
VaultChecksum(ref) == SubSeq(ref, Len(VaultPrefix) + 1, Len(ref))

VaultStoreOp ==
    /\ ops < MaxOps
    /\ \E content \in Payloads : \E fault \in Faults(content) :
         LET r == VaultStore(vfiles, today, content, fault) IN
         /\ vfiles' = r.files
         /\ last' = [op |-> "Store", backend |-> "vault", content |-> content,
                     ref |-> r.ref, err |-> r.err, data |-> NoData,
                     args |-> <<>>, fault |-> fault.kind]
         /\ issued' = IF r.err = NoErr
                      THEN issued \cup {[n |-> ops + 1, day |-> today,
                                         backend |-> "vault", content |-> content,
                                         uri |-> r.ref,
                                         checksum |-> VaultChecksum(r.ref)]}
                      ELSE issued
    /\ ops' = ops + 1
    /\ UNCHANGED <<bfiles, bdirs, today, altered>>
    /\ UNCHANGED <<procVars, calls>>

\* references a caller may present: the ones Store returns, and a bare hash
VaultRefInputs ==
    {VaultPrefix \o HexSum256(p) : p \in Payloads} \cup {HexSum256(p) : p \in Payloads}

VaultRetrieveOp ==
    /\ ops < MaxOps
    /\ \E ref \in VaultRefInputs :
         LET r == VaultRetrieve(vfiles, ref) IN
         last' = [op |-> "Retrieve", backend |-> "vault", content |-> "",
                  ref |-> ref, err |-> r.err, data |-> r.data,
                  args |-> <<>>, fault |-> "none"]
    /\ ops' = ops + 1
    /\ UNCHANGED <<vfiles, bfiles, bdirs, today, issued, altered>>
    /\ UNCHANGED <<procVars, calls>>

BackendStoreOp ==
    /\ ops < MaxOps
    /\ \E traceID \in TraceIDs, spanID \in SpanIDs, attrKey \in AttrKeys :
       \E data \in Payloads : \E fault \in Faults(data) :
         LET r == BackendStore(bfiles, bdirs, traceID, spanID, attrKey, data, fault) IN
         /\ bfiles' = r.files
         /\ bdirs' = r.dirs
         /\ last' = [op |-> "Store", backend |-> "fs", content |-> data,
                     ref |-> r.ref, err |-> r.err, data |-> NoData,
                     args |-> <<traceID, spanID, attrKey>>, fault |-> fault.kind]
         /\ issued' = IF r.err = NoErr
                      THEN issued \cup {[n |-> ops + 1, day |-> today,
                                         backend |-> "fs", content |-> data,
                                         uri |-> r.ref.URI,
                                         checksum |-> r.ref.Checksum]}
                      ELSE issued
    /\ ops' = ops + 1
    /\ UNCHANGED <<vfiles, today, altered>>
    /\ UNCHANGED <<procVars, calls>>

\* the Reference a caller holds for an issued entry
ReferenceOf(e) ==
    [URI |-> e.uri, Checksum |-> e.checksum, Encrypted |-> FALSE,
     SizeBytes |-> Len(e.content)]

BackendRetrieveOp ==
    /\ ops < MaxOps
    /\ \E e \in {x \in issued : x.backend = "fs"} :
         LET r == BackendRetrieve(bfiles, ReferenceOf(e)) IN
         last' = [op |-> "Retrieve", backend |-> "fs", content |-> "",
                  ref |-> ReferenceOf(e), err |-> r.err, data |-> r.data,
                  args |-> <<>>, fault |-> "none"]
    /\ ops' = ops + 1
    /\ UNCHANGED <<vfiles, bfiles, bdirs, today, issued, altered>>
    /\ UNCHANGED <<procVars, calls>>

\* Retrieve with a legacy reference: the locator of a stored object and an
\* empty checksum
BackendRetrieveLegacyOp ==
    /\ ops < MaxOps
    /\ \E e \in {x \in issued : x.backend = "fs"} :
         LET ref == [ReferenceOf(e) EXCEPT !.Checksum = ""]
             r == BackendRetrieve(bfiles, ref) IN
         last' = [op |-> "Retrieve", backend |-> "fs", content |-> "",
                  ref |-> ref, err |-> r.err, data |-> r.data,
                  args |-> <<>>, fault |-> "none"]
    /\ ops' = ops + 1
    /\ UNCHANGED <<vfiles, bfiles, bdirs, today, issued, altered>>
    /\ UNCHANGED <<procVars, calls>>

\* midnight UTC passes
Tick ==
    /\ today < MaxDay
    /\ today' = today + 1
    /\ UNCHANGED <<vfiles, bfiles, bdirs, ops, last, issued, altered>>
    /\ UNCHANGED <<procVars, calls>>

NextStore ==
    \/ VaultStoreOp
    \/ VaultRetrieveOp
    \/ BackendStoreOp
    \/ BackendRetrieveOp
    \/ BackendRetrieveLegacyOp
    \/ Tick

SpecStore == InitStore /\ [][NextStore]_vars

(***************************************************************************)
(* The environment alters the bytes of a stored object (corruption, a      *)
(* manual edit): the object a returned reference resolves to.              *)
(***************************************************************************)
\* the file of the FilesystemBackend a locator resolves to
BackendPathOf(uri) == JoinPath(<<SubSeq(uri, Len(FsPrefix) + 1, Len(uri))>>)

TamperVault ==
    /\ ops < MaxOps
    /\ \E e \in {x \in issued : x.backend = "vault"} :
       \E data \in Payloads \ {vfiles[VaultFind(vfiles, e.uri)]} :
         LET path == VaultFind(vfiles, e.uri) IN
         /\ vfiles' = WriteAt(vfiles, path, data)
         /\ altered' = altered \cup {<<"vault", path>>}
    /\ ops' = ops + 1
    /\ last' = [NoOp EXCEPT !.op = "Tamper"]
    /\ UNCHANGED <<bfiles, bdirs, today, issued>>
    /\ UNCHANGED <<procVars, calls>>

TamperBackend ==
    /\ ops < MaxOps
    /\ \E e \in {x \in issued : x.backend = "fs"} :
       \E data \in Payloads \ {bfiles[BackendPathOf(e.uri)]} :
         LET path == BackendPathOf(e.uri) IN
         /\ bfiles' = WriteAt(bfiles, path, data)
         /\ altered' = altered \cup {<<"fs", path>>}
    /\ ops' = ops + 1
    /\ last' = [NoOp EXCEPT !.op = "Tamper"]
    /\ UNCHANGED <<vfiles, bdirs, today, issued>>
    /\ UNCHANGED <<procVars, calls>>

NextTamper ==
    \/ VaultStoreOp
    \/ VaultRetrieveOp
    \/ BackendStoreOp
    \/ BackendRetrieveOp
    \/ BackendRetrieveLegacyOp
    \/ Tick
    \/ TamperVault
    \/ TamperBackend

SpecTamper == InitStore /\ [][NextTamper]_vars

(***************************************************************************)
(* pcommon.Map: a slice of key/value pairs with distinct keys.             *)
(***************************************************************************)
Has(m, k) == \E i \in 1..Len(m) : m[i].key = k

IndexOf(m, k) == CHOOSE i \in 1..Len(m) : m[i].key = k /\ \A j \in 1..(i - 1) : m[j].key # k

\* Map.Get; NoData when the key is absent
Get(m, k) == IF Has(m, k) THEN m[IndexOf(m, k)].val ELSE NoData

\* Map.PutStr: update in place, or append
PutStr(m, k, v) ==
    IF Has(m, k) THEN [m EXCEPT ![IndexOf(m, k)].val = v]
    ELSE Append(m, [key |-> k, val |-> v])

\* a Remove that drops the last pair instead of moving it
Remove_Last(m, k) ==
    IF Has(m, k) THEN SubSeq(m, 1, Len(m) - 1) ELSE m

\* Map.Remove: the last pair takes the place of the removed one
Remove(m, k) ==
    IF Has(m, k)
    THEN SubSeq([m EXCEPT ![IndexOf(m, k)] = m[Len(m)]], 1, Len(m) - 1)
    ELSE m

(***************************************************************************)
(* vaultProcessor.vaultSpan, first loop: the pending entries, in the order *)
(* Range visits the attributes.                                            *)
(***************************************************************************)
\* a threshold test that also skips a value of exactly size_threshold bytes
Eligible_Strict(c, kv) == kv.key \in c.keys /\ ~(Len(kv.val) <= c.threshold)

Eligible(c, kv) == kv.key \in c.keys /\ ~(Len(kv.val) < c.threshold)

\* a scan over the live attribute map: it also meets the <key>.vault_ref the
\* rewrite of an entry adds, with the reference as its value
RECURSIVE Collect_Live(_, _)
Collect_Live(c, attrs) ==
    IF attrs = <<>> THEN <<>>
    ELSE LET kv == Head(attrs)
             added == [key |-> kv.key \o ".vault_ref",
                       val |-> VaultPrefix \o HexSum256(kv.val)] IN
         (IF Eligible(c, kv)
          THEN <<[key |-> kv.key, content |-> kv.val]>> \o
               (IF Eligible(c, added)
                THEN <<[key |-> added.key, content |-> added.val]>>
                ELSE <<>>)
          ELSE <<>>) \o Collect_Live(c, Tail(attrs))

RECURSIVE Collect(_, _)
Collect(c, attrs) ==
    IF attrs = <<>> THEN <<>>
    ELSE (IF Eligible(c, Head(attrs))
          THEN <<[key |-> Head(attrs).key, content |-> Head(attrs).val]>>
          ELSE <<>>) \o Collect(c, Tail(attrs))

\* a switch whose replace_with_ref case forgets <key>.vault_ref
ApplyMode_NoRefKey(attrs, mode, key, ref) ==
    IF mode = "replace_with_ref"
    THEN PutStr(attrs, key, ref)
    ELSE IF mode = "remove"
    THEN PutStr(Remove(attrs, key), key \o ".vault_ref", ref)
    ELSE attrs

\* a switch whose remove case forgets to remove the attribute
ApplyMode_NoRemove(attrs, mode, key, ref) ==
    IF mode = "replace_with_ref"
    THEN PutStr(PutStr(attrs, key, ref), key \o ".vault_ref", ref)
    ELSE IF mode = "remove"
    THEN PutStr(attrs, key \o ".vault_ref", ref)
    ELSE attrs

\* vaultSpan, the switch on config.Vault.Mode
ApplyMode(attrs, mode, key, ref) ==
    IF mode = "replace_with_ref"
    THEN PutStr(PutStr(attrs, key, ref), key \o ".vault_ref", ref)
    ELSE IF mode = "remove"
    THEN PutStr(Remove(attrs, key), key \o ".vault_ref", ref)
    ELSE attrs

\* a loop body without the continue on error
Rewrite_IgnoreErr(attrs, mode, key, r) == ApplyMode(attrs, mode, key, r.ref)

\* vaultSpan, the loop body once Store has returned r: continue on an
\* error, the switch otherwise
Rewrite(attrs, mode, key, r) ==
    IF r.err # NoErr THEN attrs ELSE ApplyMode(attrs, mode, key, r.ref)

(***************************************************************************)
(* Inputs of the processor.                                                *)
(***************************************************************************)
Modes == {"replace_with_ref", "remove", "drop", "keep_and_ref"}

KeySets == {{"p"}, {"p", "p.vault_ref"}}

InputKeys == {"p", "p.vault_ref", "m"}

RECURSIVE Repeat(_, _)
Repeat(c, n) == IF n = 0 THEN "" ELSE c \o Repeat(c, n - 1)

AttrValues == {Repeat("a", n) : n \in 0..MaxLen}

Configs == [keys : KeySets, threshold : 0..MaxLen, mode : Modes]

\* attribute maps with distinct keys
RECURSIVE AttrMaps(_)
AttrMaps(n) ==
    IF n = 0 THEN {<<>>}
    ELSE LET S == AttrMaps(n - 1) IN
         S \cup {Append(m, [key |-> k, val |-> v]) :
                    m \in {x \in S : Len(x) = n - 1}, k \in InputKeys, v \in AttrValues}

SpanInputs == {[attrs |-> m] : m \in {x \in AttrMaps(MaxAttrs) :
                   \A i, j \in 1..Len(x) : x[i].key = x[j].key => i = j}}

RECURSIVE BatchInputs(_)
BatchInputs(n) ==
    IF n = 0 THEN {<<>>}
    ELSE LET S == BatchInputs(n - 1) IN
         S \cup {Append(b, sp) : b \in {x \in S : Len(x) = n - 1}, sp \in SpanInputs}

InitProc == StoreEmpty /\ (\E c \in Configs : ProcIdle(c)) /\ calls = NoCalls

(***************************************************************************)
(* Batches with span events and more than one resource / scope group.  A   *)
(* span carries its name, its attributes, its events, and its place in the *)
(* batch: it is Spans().At(..) of ResourceSpans().At(rs - 1)               *)
(* .ScopeSpans().At(ss - 1).  Every group holds at least one span.         *)
(***************************************************************************)
EventNames == {"e", "f"}

EventAttrMaps == {<<>>, <<[key |-> "p", val |-> "a"]>>}

EventInputs == {[name |-> n, attrs |-> m] : n \in EventNames, m \in EventAttrMaps}

RECURSIVE EventSeqs(_)
EventSeqs(n) ==
    IF n = 0 THEN {<<>>}
    ELSE LET S == EventSeqs(n - 1) IN
         S \cup {Append(es, e) : es \in {x \in S : Len(x) = n - 1}, e \in EventInputs}

EventSpanInputs ==
    {[name |-> "", attrs |-> m, events |-> es, rs |-> 1, ss |-> 1] :
        m \in EventAttrMaps, es \in EventSeqs(MaxEvents)}

SpanName(n) == "s" \o Repeat("i", n)

\* where the span after the spans b can stand: in the same scope group, in
\* the next scope group of the same resource group, in the next resource group
Placements(b) ==
    IF b = <<>> THEN {<<1, 1>>}
    ELSE LET l == b[Len(b)] IN {<<l.rs, l.ss>>, <<l.rs, l.ss + 1>>, <<l.rs + 1, 1>>}

RECURSIVE EventBatchInputs(_)
EventBatchInputs(n) ==
    IF n = 0 THEN {<<>>}
    ELSE LET S == EventBatchInputs(n - 1) IN
         S \cup UNION {{Append(b, [sp EXCEPT !.name = SpanName(n),
                                             !.rs = g[1], !.ss = g[2]]) :
                            g \in Placements(b), sp \in EventSpanInputs} :
                        b \in {x \in S : Len(x) = n - 1}}

(***************************************************************************)
(* vaultProcessor.ConsumeTraces, step by step.  ResourceSpans / ScopeSpans *)
(* / Spans are visited in nested order: td is the spans in that order.     *)
(***************************************************************************)
ConsumeTracesCall(batch) ==
    /\ input' = batch
    /\ td' = batch
    /\ spanIdx' = 1
    /\ pc' = "span"
    /\ UNCHANGED <<cfg, toVault, entryIdx, stores, result, sink>>
    /\ UNCHANGED <<storeVars, calls>>

ConsumeTracesBegin ==
    /\ pc = "idle"
    /\ \E batch \in BatchInputs(MaxSpans) : ConsumeTracesCall(batch)

\* a call with a batch that has events and groups
ConsumeTracesEvents ==
    /\ pc = "idle"
    /\ \E batch \in EventBatchInputs(MaxSpans) : ConsumeTracesCall(batch)

\* vaultSpan: attrs.Range collects the entries to vault
ScanSpan ==
    /\ pc = "span"
    /\ spanIdx <= Len(td)
    /\ toVault' = Collect(cfg, td[spanIdx].attrs)
    /\ entryIdx' = 1
    /\ pc' = "offload"
    /\ UNCHANGED <<cfg, input, td, spanIdx, stores, result, sink>>
    /\ UNCHANGED <<storeVars, calls>>

\* a rewrite that appends the rewritten span as a new record and leaves the
\* original in place
SetSpanAttrs_Append(spans, i, attrs) == Append(spans, [spans[i] EXCEPT !.attrs = attrs])

\* a rewrite that rebuilds the span from its attributes and loses its events
SetSpanAttrs_NoEvents(spans, i, attrs) ==
    [spans EXCEPT ![i] = [name |-> spans[i].name, attrs |-> attrs, events |-> <<>>,
                          rs |-> spans[i].rs, ss |-> spans[i].ss]]

\* attrs := span.Attributes() is the attribute map of spans.At(i) itself: a
\* change of attrs is a change of that span, of nothing else of the batch
SetSpanAttrs(spans, i, attrs) == [spans EXCEPT ![i].attrs = attrs]

\* a loop that a failed Store ends: break where the code has continue
OffloadEntry_Break ==
    /\ pc = "offload"
    /\ entryIdx <= Len(toVault)
    /\ LET entry == toVault[entryIdx] IN
       \E fault \in Faults(entry.content) :
         LET r == VaultStore(vfiles, today, entry.content, fault) IN
         /\ vfiles' = r.files
         /\ stores' = Append(stores, [span |-> spanIdx, event |-> 0,
                                      key |-> entry.key,
                                      content |-> entry.content,
                                      ref |-> r.ref, err |-> r.err])
         /\ td' = SetSpanAttrs(td, spanIdx,
                                Rewrite(td[spanIdx].attrs, cfg.mode, entry.key, r))
         /\ entryIdx' = IF r.err # NoErr THEN Len(toVault) + 1 ELSE entryIdx + 1
    /\ UNCHANGED <<cfg, pc, input, spanIdx, toVault, result, sink>>
    /\ UNCHANGED <<bfiles, bdirs, today, ops, last, issued, altered, calls>>

\* vaultSpan: one turn of the loop over toVault; the stores entry notes the
\* call: the span, the event (0: a span attribute), the key, the results
OffloadEntry ==
    /\ pc = "offload"
    /\ entryIdx <= Len(toVault)
    /\ LET entry == toVault[entryIdx] IN
       \E fault \in Faults(entry.content) :
         LET r == VaultStore(vfiles, today, entry.content, fault) IN
         /\ vfiles' = r.files
         /\ stores' = Append(stores, [span |-> spanIdx, event |-> 0,
                                      key |-> entry.key,
                                      content |-> entry.content,
                                      ref |-> r.ref, err |-> r.err])
         /\ td' = SetSpanAttrs(td, spanIdx,
                                Rewrite(td[spanIdx].attrs, cfg.mode, entry.key, r))
    /\ entryIdx' = entryIdx + 1
    /\ UNCHANGED <<cfg, pc, input, spanIdx, toVault, result, sink>>
    /\ UNCHANGED <<bfiles, bdirs, today, ops, last, issued, altered, calls>>

\* vaultSpan returns; ConsumeTraces goes to the next span
EndSpan ==
    /\ pc = "offload"
    /\ entryIdx > Len(toVault)
    /\ spanIdx' = spanIdx + 1
    /\ pc' = "span"
    /\ UNCHANGED <<cfg, input, td, toVault, entryIdx, stores, result, sink>>
    /\ UNCHANGED <<storeVars, calls>>

\* a return that also reports a failed Store as the batch's error
Forward_StoreErr ==
    /\ pc = "span"
    /\ spanIdx > Len(td)
    /\ \E e \in {NoErr, "downstream error"} :
         /\ sink' = Append(sink, [td |-> td, ret |-> e])
         /\ result' = IF e = NoErr /\ \E n \in 1..Len(stores) : stores[n].err # NoErr
                       THEN "vault store failed"
                       ELSE e
    /\ pc' = "done"
    /\ UNCHANGED <<cfg, input, td, spanIdx, toVault, entryIdx, stores>>
    /\ UNCHANGED <<storeVars, calls>>

\* return p.nextConsumer.ConsumeTraces(ctx, td)
Forward ==
    /\ pc = "span"
    /\ spanIdx > Len(td)
    /\ \E e \in {NoErr, "downstream error"} :
         /\ sink' = Append(sink, [td |-> td, ret |-> e])
         /\ result' = e
    /\ pc' = "done"
    /\ UNCHANGED <<cfg, input, td, spanIdx, toVault, entryIdx, stores>>
    /\ UNCHANGED <<storeVars, calls>>

NextProc ==
    \/ ConsumeTracesBegin
    \/ ScanSpan
    \/ OffloadEntry
    \/ EndSpan
    \/ Forward

SpecProc == InitProc /\ [][NextProc]_vars

NextEvents ==
    \/ ConsumeTracesEvents
    \/ ScanSpan
    \/ OffloadEntry
    \/ EndSpan
    \/ Forward

SpecEvents == InitProc /\ [][NextEvents]_vars

(***************************************************************************)
(* Construction.  The collector hands the configuration to                 *)
(* createTracesProcessor and then calls Start; pc is "config" before the   *)
(* factory ran, "failed" when it returned an error, "created" when it      *)
(* returned a processor and "idle" when Start has returned.                *)
(***************************************************************************)
\* values of storage.backend: the default, the one the comment of
\* StorageConfig also names, and one nothing names
Backends == {"filesystem", "s3", "nfs"}

FactoryConfigs ==
    {[keys |-> c.keys, threshold |-> c.threshold, mode |-> c.mode, backend |-> b] :
        c \in Configs, b \in Backends}

InitFactory ==
    /\ StoreEmpty
    /\ \E c \in FactoryConfigs : cfg = c
    /\ pc = "config"
    /\ input = <<>>
    /\ td = <<>>
    /\ spanIdx = 1
    /\ toVault = <<>>
    /\ entryIdx = 1
    /\ stores = <<>>
    /\ result = NoErr
    /\ sink = <<>>
    /\ calls = NoCalls

\* os.MkdirAll(basePath) is the one call that can fail
NewFilesystemVault(fault) ==
    IF fault.kind = "mkdir" THEN "create vault dir" ELSE NoErr

\* Storage.Backend is not read: the vault is the filesystem vault whatever
\* the tag
createTracesProcessor ==
    /\ pc = "config"
    /\ \E fault \in {NoFault, [kind |-> "mkdir", n |-> 0]} :
         LET err == NewFilesystemVault(fault) IN
         /\ result' = err
         /\ pc' = IF err # NoErr THEN "failed" ELSE "created"
    /\ UNCHANGED <<cfg, input, td, spanIdx, toVault, entryIdx, stores, sink>>
    /\ UNCHANGED <<storeVars, calls>>

\* Start logs the key count, the mode and the backend tag and returns nil
Start ==
    /\ pc = "created"
    /\ pc' = "idle"
    /\ result' = NoErr
    /\ UNCHANGED <<cfg, input, td, spanIdx, toVault, entryIdx, stores, sink>>
    /\ UNCHANGED <<storeVars, calls>>

NextFactory ==
    \/ createTracesProcessor
    \/ Start
    \/ ConsumeTracesBegin
    \/ ScanSpan
    \/ OffloadEntry
    \/ EndSpan
    \/ Forward

SpecFactory == InitFactory /\ [][NextFactory]_vars

(***************************************************************************)
(* Two Store calls with the same payload and a Retrieve, running           *)
(* concurrently on one store, one system call at a time.  os.WriteFile is  *)
(* OpenFile(O_WRONLY|O_CREATE|O_TRUNC), Write, Close: the file exists and  *)
(* is empty from the open to the write.  No system call fails here.        *)
(***************************************************************************)
Storers == {1, 2}

Retriever == 3

ConcBackends == {"vault", "fs"}

\* the arguments of the FilesystemBackend calls
ConcPath == JoinPath(<<"t", "s", "p">>)

IdleCall(backend, content) ==
    [pc |-> "idle", backend |-> backend, content |-> content,
     ref |-> IF backend = "vault" THEN "" ELSE ZeroReference,
     found |-> <<>>, err |-> NoErr, data |-> NoData]

InitConc ==
    /\ StoreEmpty
    /\ ProcIdle(createDefaultConfig)
    /\ \E backend \in ConcBackends, content \in Payloads :
         calls = [i \in Storers \cup {Retriever} |-> IdleCall(backend, content)]

\* the file a Store call writes
TargetOf(c) ==
    IF c.backend = "vault" THEN <<today, HexSum256(c.content) \o ".vault">> ELSE ConcPath

\* the reference a Store call returns
RefOf(c) ==
    IF c.backend = "vault" THEN VaultPrefix \o HexSum256(c.content)
    ELSE [URI |-> FsPrefix \o "t" \o "/" \o "s" \o "/" \o "p",
          Checksum |-> HexSum256(c.content), Encrypted |-> FALSE,
          SizeBytes |-> Len(c.content)]

\* the files of the store a call works on, after writing data at path
ConcWrite(c, path, data) ==
    /\ vfiles' = IF c.backend = "vault" THEN WriteAt(vfiles, path, data) ELSE vfiles
    /\ bfiles' = IF c.backend = "fs" THEN WriteAt(bfiles, path, data) ELSE bfiles

ConcFrame == UNCHANGED <<today, ops, last, issued, altered, procVars>>

\* Store is called
StoreBegin(i) ==
    /\ calls[i].pc = "idle"
    /\ calls' = [calls EXCEPT ![i].pc = "mkdir"]
    /\ UNCHANGED <<vfiles, bfiles, bdirs>>
    /\ ConcFrame

\* os.MkdirAll of the date directory / of filepath.Dir(filePath)
StoreMkdir(i) ==
    /\ calls[i].pc = "mkdir"
    /\ bdirs' = IF calls[i].backend = "fs" THEN bdirs \cup Prefixes(DirOf(ConcPath))
                 ELSE bdirs
    /\ calls' = [calls EXCEPT ![i].pc = IF calls[i].backend = "vault" THEN "stat"
                                         ELSE "open"]
    /\ UNCHANGED <<vfiles, bfiles>>
    /\ ConcFrame

\* FilesystemVault.Store: os.Stat(path); the file is there: return the
\* reference
StoreStat(i) ==
    /\ calls[i].pc = "stat"
    /\ calls' = IF TargetOf(calls[i]) \in DOMAIN vfiles
                 THEN [calls EXCEPT ![i].pc = "done", ![i].ref = RefOf(calls[i])]
                 ELSE [calls EXCEPT ![i].pc = "open"]
    /\ UNCHANGED <<vfiles, bfiles, bdirs>>
    /\ ConcFrame

\* os.WriteFile: the open creates the file, or truncates it
StoreOpen(i) ==
    /\ calls[i].pc = "open"
    /\ ConcWrite(calls[i], TargetOf(calls[i]), "")
    /\ calls' = [calls EXCEPT ![i].pc = "write"]
    /\ UNCHANGED bdirs
    /\ ConcFrame

\* os.WriteFile: the write and the close; Store returns the reference
StoreWrite(i) ==
    /\ calls[i].pc = "write"
    /\ ConcWrite(calls[i], TargetOf(calls[i]), calls[i].content)
    /\ calls' = [calls EXCEPT ![i].pc = "done", ![i].ref = RefOf(calls[i])]
    /\ UNCHANGED bdirs
    /\ ConcFrame

\* Retrieve is called with a reference a Store call has returned
RetrieveBegin ==
    /\ calls[Retriever].pc = "idle"
    /\ \E i \in Storers :
         /\ calls[i].pc = "done"
         /\ calls' = [calls EXCEPT ![Retriever].pc = "find",
                                    ![Retriever].ref = calls[i].ref]
    /\ UNCHANGED <<vfiles, bfiles, bdirs>>
    /\ ConcFrame

\* FilesystemVault.Retrieve: filepath.Walk; FilesystemBackend.Retrieve: the
\* path is taken from the locator
RetrieveFind ==
    /\ calls[Retriever].pc = "find"
    /\ LET c == calls[Retriever]
           found == IF c.backend = "vault" THEN VaultFind(vfiles, c.ref)
                    ELSE BackendPathOf(c.ref.URI) IN
       calls' = IF c.backend = "vault" /\ found = <<>>
                THEN [calls EXCEPT ![Retriever].pc = "done",
                                   ![Retriever].err = "vault ref not found"]
                ELSE [calls EXCEPT ![Retriever].pc = "read",
                                   ![Retriever].found = found]
    /\ UNCHANGED <<vfiles, bfiles, bdirs>>
    /\ ConcFrame

\* os.ReadFile, and in FilesystemBackend.Retrieve the checksum comparison
RetrieveRead ==
    /\ calls[Retriever].pc = "read"
    /\ LET c == calls[Retriever] IN
       calls' = IF c.backend = "vault"
                THEN [calls EXCEPT ![Retriever].pc = "done",
                                   ![Retriever].data = vfiles[c.found]]
                ELSE IF c.found \notin DOMAIN bfiles
                THEN [calls EXCEPT ![Retriever].pc = "done",
                                   ![Retriever].err = "failed to read vault object"]
                ELSE IF HexSum256(bfiles[c.found]) # c.ref.Checksum
                THEN [calls EXCEPT ![Retriever].pc = "done",
                                   ![Retriever].err = "checksum mismatch"]
                ELSE [calls EXCEPT ![Retriever].pc = "done",
                                   ![Retriever].data = bfiles[c.found]]
    /\ UNCHANGED <<vfiles, bfiles, bdirs>>
    /\ ConcFrame

NextConc ==
    \/ \E i \in Storers : StoreBegin(i)
    \/ \E i \in Storers : StoreMkdir(i)
    \/ \E i \in Storers : StoreStat(i)
    \/ \E i \in Storers : StoreOpen(i)
    \/ \E i \in Storers : StoreWrite(i)
    \/ RetrieveBegin
    \/ RetrieveFind
    \/ RetrieveRead

SpecConc == InitConc /\ [][NextConc]_vars

(***************************************************************************)
(* Properties of the stores.                                               *)
(***************************************************************************)
\* what Retrieve of the reference the last Store returned gives now
RetrieveOfLast ==
    IF last.backend = "vault" THEN VaultRetrieve(vfiles, last.ref)
    ELSE BackendRetrieve(bfiles, last.ref)

\* C1: round-trip integrity.  Right after a successful Store(p), on either
\* store and whatever was stored before, Retrieve of the returned reference
\* returns exactly the bytes p and no error.
C1_RoundTrip ==
    (last.op = "Store" /\ last.err = NoErr) =>
        RetrieveOfLast = [data |-> last.content, err |-> NoErr]

\* C2: determinism of addressing.  Any two successful Store calls with the
\* same payload, at any two points of a run, on any store and for any
\* attribute paths, return references with the same checksum; on the
\* FilesystemVault the two reference strings are the same as well.
C2_AddressingDeterministic ==
    \A e1, e2 \in issued :
        e1.content = e2.content =>
            /\ e1.checksum = e2.checksum
            /\ (e1.backend = "vault" /\ e2.backend = "vault") => e1.uri = e2.uri

\* the same payload was stored twice in the vault, on two days, and once in
\* the backend
C2_Witness ==
    \E e1, e2, e3 \in issued :
        /\ e1.backend = "vault" /\ e2.backend = "vault" /\ e3.backend = "fs"
        /\ e1.n # e2.n /\ e1.day # e2.day
        /\ e1.content = e2.content /\ e1.content = e3.content

\* the stored object an issued reference resolves to, and its bytes now
LocationOf(e) ==
    IF e.backend = "vault" THEN <<"vault", VaultFind(vfiles, e.uri)>>
    ELSE <<"fs", BackendPathOf(e.uri)>>

BytesAt(loc) == IF loc[1] = "vault" THEN vfiles[loc[2]] ELSE bfiles[loc[2]]

RetrievedWith(e) ==
    /\ last.op = "Retrieve"
    /\ last.backend = e.backend
    /\ IF e.backend = "vault" THEN last.ref = e.uri ELSE last.ref = ReferenceOf(e)

\* C3: checksum enforcement.  When the bytes of a stored object were altered
\* after Store returned its reference, Retrieve of that reference returns a
\* checksum-mismatch error and no bytes, on every store.
C3_ChecksumEnforced ==
    \A e \in issued :
        (/\ RetrievedWith(e)
         /\ LocationOf(e) \in altered
         /\ BytesAt(LocationOf(e)) # e.content)
            => (last.err = "checksum mismatch" /\ last.data = NoData)

\* a step that is a Store call on the named store
StoreStep(backend) ==
    /\ ops' = ops + 1
    /\ last'.op = "Store"
    /\ last'.backend = backend

\* the locator of the FilesystemBackend object at path q
UriOf(q) == FsPrefix \o JoinElems(q)

\* the objects of the FilesystemBackend a step created or changed
Written == {q \in DOMAIN bfiles' : q \notin DOMAIN bfiles \/ bfiles'[q] # bfiles[q]}

\* C15: no partial visible object.  After a Store call that failed, also one
\* whose write failed after the file was created, nothing is retrievable at
\* the locator the call would have returned (unless it was before the call);
\* and a Store that succeeds returns a reference that resolves to the whole
\* payload, never to a part of it.
C15_NoPartialObject ==
    [][/\ (StoreStep("vault") /\ last'.err # NoErr) =>
             LET ref == VaultPrefix \o HexSum256(last'.content) IN
             VaultRetrieve(vfiles, ref).err # NoErr => VaultRetrieve(vfiles', ref).err # NoErr
       /\ (StoreStep("fs") /\ last'.err # NoErr) =>
             \A q \in Written :
                 BackendRetrieve(bfiles', [URI |-> UriOf(q),
                                           Checksum |-> HexSum256(last'.content),
                                           Encrypted |-> FALSE,
                                           SizeBytes |-> Len(last'.content)]).err # NoErr
       /\ (StoreStep("vault") /\ last'.err = NoErr) =>
             VaultRetrieve(vfiles', last'.ref).data = last'.content
       /\ (StoreStep("fs") /\ last'.err = NoErr) =>
             BackendRetrieve(bfiles', last'.ref).data = last'.content]_vars

\* Retrieve of an issued reference returns its payload
Intact(vf, bf, e) ==
    [data |-> e.content, err |-> NoErr] =
        (IF e.backend = "vault" THEN VaultRetrieve(vf, e.uri)
         ELSE BackendRetrieve(bf, ReferenceOf(e)))

\* C16: additive-only storage.  Once Store has returned a reference that
\* retrieves its payload, no later Store call, with any payload, path or
\* date, changes or deletes the object: the reference keeps retrieving the
\* original payload for the rest of the run.
C16_AdditiveOnly ==
    [][\A e \in issued : Intact(vfiles, bfiles, e) => Intact(vfiles', bfiles', e)]_vars

\* the file name of the FilesystemVault object of a payload
VaultName(content) == HexSum256(content) \o ".vault"

\* the objects of the FilesystemVault stored under the hash of a payload
ObjectsOf(vf, content) == {q \in DOMAIN vf : q[2] = VaultName(content)}

C19_LegacyReference ==
    (/\ last.op = "Retrieve" /\ last.backend = "fs"
     /\ BackendPathOf(last.ref.URI) \in DOMAIN bfiles) =>
        LET stored == bfiles[BackendPathOf(last.ref.URI)] IN
        IF last.ref.Checksum = ""
        THEN last.err = NoErr /\ last.data = stored
        ELSE IF HexSum256(stored) = last.ref.Checksum
        THEN last.err = NoErr /\ last.data = stored
        ELSE last.err = "checksum mismatch" /\ last.data = NoData

\* the attribute key has path separators: an event-scoped key
IsNested(attrKey) == \E i \in 1..Len(attrKey) : SubSeq(attrKey, i, i) = "/"

Done == pc = "done"

Out == sink[Len(sink)].td

RefKey(k) == k \o ".vault_ref"

\* the attributes of input span i, as key/value pairs
InputAttrs(i) == {input[i].attrs[a] : a \in 1..Len(input[i].attrs)}

\* key is in keys and the value is at least size_threshold bytes long
AboveThreshold(kv) == kv.key \in cfg.keys /\ Len(kv.val) >= cfg.threshold

\* the Store call vaultSpan made for attribute k of span i
StoreCalls(i, k) == {n \in 1..Len(stores) : stores[n].span = i /\ stores[n].key = k}

Stored(i, k) == \E n \in StoreCalls(i, k) : stores[n].err = NoErr

StoreFailed(i, k) == \E n \in StoreCalls(i, k) : stores[n].err # NoErr

StoredRef(i, k) == stores[CHOOSE n \in StoreCalls(i, k) : stores[n].err = NoErr].ref

RewritingMode == cfg.mode \in {"replace_with_ref", "remove"}

\* another attribute k2 of span i was offloaded and its <k2>.vault_ref is k
IsRefKeyOfStored(i, k) ==
    RewritingMode /\ \E kv2 \in InputAttrs(i) : RefKey(kv2.key) = k /\ Stored(i, kv2.key)

\* a pending entry processed after k in span i, stored successfully, whose
\* rewrite writes k or <k>.vault_ref
RewrittenLater(i, k) ==
    \E kv2 \in InputAttrs(i) :
        /\ IndexOf(input[i].attrs, kv2.key) > IndexOf(input[i].attrs, k)
        /\ Stored(i, kv2.key)
        /\ (kv2.key = RefKey(k) \/ RefKey(kv2.key) = k)

\* no <k>.vault_ref attribute was added to span i
NoRefAdded(i, k) == Has(Out[i].attrs, RefKey(k)) => Has(input[i].attrs, RefKey(k))

Untouched(i, kv) ==
    /\ StoreCalls(i, kv.key) = {}
    /\ Get(Out[i].attrs, kv.key) = kv.val
    /\ NoRefAdded(i, kv.key)

C5_ReplaceWithRef ==
    (Done /\ cfg.mode = "replace_with_ref") =>
        \A i \in 1..Len(input) : \A kv \in InputAttrs(i) :
            (AboveThreshold(kv) /\ Stored(i, kv.key)) =>
                /\ Get(Out[i].attrs, kv.key) = StoredRef(i, kv.key)
                /\ Get(Out[i].attrs, RefKey(kv.key)) = StoredRef(i, kv.key)

\* C5 as amended: the same, unless a pending entry processed after k in the
\* same span, with a successful Store, has the key <k>.vault_ref or has k as
\* its own <key>.vault_ref.
C5_ReplaceWithRefAmended ==
    (Done /\ cfg.mode = "replace_with_ref") =>
        \A i \in 1..Len(input) : \A kv \in InputAttrs(i) :
            (AboveThreshold(kv) /\ Stored(i, kv.key) /\ ~RewrittenLater(i, kv.key)) =>
                /\ Get(Out[i].attrs, kv.key) = StoredRef(i, kv.key)
                /\ Get(Out[i].attrs, RefKey(kv.key)) = StoredRef(i, kv.key)

C5_Witness ==
    /\ Done
    /\ cfg.mode = "replace_with_ref"
    /\ \E i \in 1..Len(input) : \E kv \in InputAttrs(i) :
         /\ AboveThreshold(kv) /\ Stored(i, kv.key) /\ ~RewrittenLater(i, kv.key)
         /\ Has(input[i].attrs, RefKey(kv.key))
         /\ Get(Out[i].attrs, kv.key) # kv.val

\* C6: mode remove.  In the output, every attribute k with its key in keys,
\* at least size_threshold bytes and a successful Store is absent, and
\* <k>.vault_ref holds the reference Store returned.
C6_Remove ==
    (Done /\ cfg.mode = "remove") =>
        \A i \in 1..Len(input) : \A kv \in InputAttrs(i) :
            (AboveThreshold(kv) /\ Stored(i, kv.key)) =>
                /\ ~Has(Out[i].attrs, kv.key)
                /\ Get(Out[i].attrs, RefKey(kv.key)) = StoredRef(i, kv.key)

\* C6 as amended: the same, unless a pending entry processed after k in the
\* same span, with a successful Store, has the key <k>.vault_ref or has k as
\* its own <key>.vault_ref.
C6_RemoveAmended ==
    (Done /\ cfg.mode = "remove") =>
        \A i \in 1..Len(input) : \A kv \in InputAttrs(i) :
            (AboveThreshold(kv) /\ Stored(i, kv.key) /\ ~RewrittenLater(i, kv.key)) =>
                /\ ~Has(Out[i].attrs, kv.key)
                /\ Get(Out[i].attrs, RefKey(kv.key)) = StoredRef(i, kv.key)

C6_Witness ==
    /\ Done
    /\ cfg.mode = "remove"
    /\ \E i \in 1..Len(input) : \E kv \in InputAttrs(i) :
         /\ AboveThreshold(kv) /\ Stored(i, kv.key) /\ ~RewrittenLater(i, kv.key)
         /\ Len(input[i].attrs) = 2
         /\ ~Has(Out[i].attrs, kv.key)

\* C7: mode drop.  In the output, every attribute k with its key in keys, at
\* least size_threshold bytes and a successful Store is absent, and
\* <k>.vault_ref holds the reference: the outcome of mode remove.
C7_Drop ==
    (Done /\ cfg.mode = "drop") =>
        \A i \in 1..Len(input) : \A kv \in InputAttrs(i) :
            (AboveThreshold(kv) /\ Stored(i, kv.key)) =>
                /\ ~Has(Out[i].attrs, kv.key)
                /\ Get(Out[i].attrs, RefKey(kv.key)) = StoredRef(i, kv.key)

\* C8: mode keep_and_ref.  In the output, every attribute k with its key in
\* keys, at least size_threshold bytes and a successful Store still has its
\* original value, and <k>.vault_ref holds the reference.
C8_KeepAndRef ==
    (Done /\ cfg.mode = "keep_and_ref") =>
        \A i \in 1..Len(input) : \A kv \in InputAttrs(i) :
            (AboveThreshold(kv) /\ Stored(i, kv.key)) =>
                /\ Get(Out[i].attrs, kv.key) = kv.val
                /\ Get(Out[i].attrs, RefKey(kv.key)) = StoredRef(i, kv.key)

\* C9: non-eligible passthrough.  In every mode, an attribute whose key is
\* not in keys has the same value in the output as in the input, also when
\* it is named <k>.vault_ref for an attribute k that gets offloaded.
C9_Passthrough ==
    Done => \A i \in 1..Len(input) : \A kv \in InputAttrs(i) :
        kv.key \notin cfg.keys => Get(Out[i].attrs, kv.key) = kv.val

\* C9 as amended: the same, except for an attribute named <k>.vault_ref for
\* an attribute k of the same span that was offloaded in mode
\* replace_with_ref or remove: that one is overwritten with the reference.
C9_PassthroughAmended ==
    Done => \A i \in 1..Len(input) : \A kv \in InputAttrs(i) :
        kv.key \notin cfg.keys =>
            IF IsRefKeyOfStored(i, kv.key)
            THEN \E kv2 \in InputAttrs(i) :
                    /\ RefKey(kv2.key) = kv.key
                    /\ Get(Out[i].attrs, kv.key) = StoredRef(i, kv2.key)
            ELSE Get(Out[i].attrs, kv.key) = kv.val

\* an attribute outside keys went through next to one that was offloaded and
\* rewritten
C9_Witness ==
    /\ Done
    /\ RewritingMode
    /\ \E i \in 1..Len(input) : \E kv, kv2 \in InputAttrs(i) :
         /\ kv.key \notin cfg.keys /\ ~IsRefKeyOfStored(i, kv.key)
         /\ Stored(i, kv2.key)
         /\ IndexOf(input[i].attrs, kv2.key) < IndexOf(input[i].attrs, kv.key)

\* C10: partial-failure containment.  When Store fails for an attribute k,
\* the output has k with its original value, no <k>.vault_ref was added, and
\* ConsumeTraces returns no error when the downstream consumer returns none.
C10_FailureContained ==
    Done => \A i \in 1..Len(input) : \A kv \in InputAttrs(i) :
        StoreFailed(i, kv.key) =>
            /\ Get(Out[i].attrs, kv.key) = kv.val
            /\ NoRefAdded(i, kv.key)
            /\ sink[Len(sink)].ret = NoErr => result = NoErr

\* C10 as amended: the same, except that k does not keep its value when it
\* is named <k2>.vault_ref for an attribute k2 of the same span that was
\* offloaded in mode replace_with_ref or remove.
C10_FailureContainedAmended ==
    Done => \A i \in 1..Len(input) : \A kv \in InputAttrs(i) :
        StoreFailed(i, kv.key) =>
            /\ ~IsRefKeyOfStored(i, kv.key) => Get(Out[i].attrs, kv.key) = kv.val
            /\ NoRefAdded(i, kv.key)
            /\ sink[Len(sink)].ret = NoErr => result = NoErr

\* a Store failed for one attribute while another one of the same span was
\* stored and rewritten, and the downstream consumer returned no error
C10_Witness ==
    /\ Done
    /\ RewritingMode
    /\ sink[Len(sink)].ret = NoErr
    /\ \E i \in 1..Len(input) : \E kv, kv2 \in InputAttrs(i) :
         /\ StoreFailed(i, kv.key) /\ ~IsRefKeyOfStored(i, kv.key)
         /\ Stored(i, kv2.key)

\* C11: batch error contract.  ConsumeTraces returns a non-nil error exactly
\* when the downstream consumer's ConsumeTraces returned one, and then it
\* returns that same error; Store failures, however many, never change what
\* is returned.
C11_BatchErrorContract ==
    Done => result = sink[Len(sink)].ret

\* every Store call of a batch with two or more of them failed, and
\* ConsumeTraces returned nil as the downstream consumer did
C11_Witness ==
    /\ Done
    /\ Len(stores) >= 2
    /\ \A n \in 1..Len(stores) : stores[n].err # NoErr
    /\ sink[Len(sink)].ret = NoErr
    /\ result = NoErr

(***************************************************************************)
(* Properties of batches with events and groups.                           *)
(***************************************************************************)
\* the records of a batch, in order: each span with its name, its groups
\* and the names of its events
Shape(b) ==
    [n \in 1..Len(b) |->
        [name |-> b[n].name, rs |-> b[n].rs, ss |-> b[n].ss,
         events |-> [e \in 1..Len(b[n].events) |-> b[n].events[e].name]]]

\* C12: batch structure preservation.  ConsumeTraces forwards to the
\* downstream consumer exactly once, after every span has been processed, a
\* batch with the same resource groups, scope groups, spans and events in
\* the same order as the input, whether the Store calls succeed or fail.
C12_StructurePreserved ==
    /\ ~Done => sink = <<>>
    /\ Done => /\ Len(sink) = 1
               /\ spanIdx > Len(input)
               /\ Shape(Out) = Shape(input)

\* two spans in two resource groups, the first with two events of different
\* names, in mode remove, with one Store that succeeded and one that failed
C12_Witness ==
    /\ Done
    /\ cfg.mode = "remove"
    /\ Len(input) = 2
    /\ input[1].rs # input[2].rs
    /\ Len(input[1].events) = 2
    /\ input[1].events[1].name # input[1].events[2].name
    /\ \E n, m \in 1..Len(stores) : stores[n].err = NoErr /\ stores[m].err # NoErr

\* the attributes of event e of input span i
EventAttrs(i, e) ==
    {input[i].events[e].attrs[a] : a \in 1..Len(input[i].events[e].attrs)}

\* the Store calls made for attribute k of event e of span i
EventStoreCalls(i, e, k) ==
    {n \in 1..Len(stores) :
        stores[n].span = i /\ stores[n].event = e /\ stores[n].key = k}

\* C13: event-scoped offload.  An attribute of a span event with its key in
\* keys and at least size_threshold bytes is passed to Store, and after a
\* successful Store it is rewritten on the event as the mode says, with
\* <key>.vault_ref added on the event.
C13_EventScopedOffload ==
    Done => \A i \in 1..Len(input) : \A e \in 1..Len(input[i].events) :
        \A kv \in EventAttrs(i, e) :
            AboveThreshold(kv) =>
                /\ \E n \in EventStoreCalls(i, e, kv.key) : stores[n].content = kv.val
                /\ \A n \in EventStoreCalls(i, e, kv.key) :
                       (stores[n].err = NoErr /\ RewritingMode) =>
                           LET out == Out[i].events[e].attrs IN
                           /\ Get(out, RefKey(kv.key)) = stores[n].ref
                           /\ IF cfg.mode = "remove" THEN ~Has(out, kv.key)
                              ELSE Get(out, kv.key) = stores[n].ref

\* v is a vault:// reference
IsVaultRef(v) == Len(v) > Len(VaultPrefix) /\ SubSeq(v, 1, Len(VaultPrefix)) = VaultPrefix

\* C14: in mode replace_with_ref, in the batch handed to the downstream
\* consumer, every attribute of a span or of an event whose key is in keys
\* holds a vault:// reference, never its raw content.
C14_NoRawContent ==
    (Done /\ cfg.mode = "replace_with_ref") =>
        \A i \in 1..Len(Out) :
            /\ \A a \in 1..Len(Out[i].attrs) :
                   Out[i].attrs[a].key \in cfg.keys => IsVaultRef(Out[i].attrs[a].val)
            /\ \A e \in 1..Len(Out[i].events) :
               \A a \in 1..Len(Out[i].events[e].attrs) :
                   Out[i].events[e].attrs[a].key \in cfg.keys =>
                       IsVaultRef(Out[i].events[e].attrs[a].val)

\* event e of span i has an attribute to offload that no Store took
NotOffloaded(i, e) ==
    \E kv \in EventAttrs(i, e) :
        /\ AboveThreshold(kv)
        /\ \A n \in EventStoreCalls(i, e, kv.key) : stores[n].err # NoErr

\* every attribute to offload of span i was passed to Store
SpanProcessed(i) ==
    \A kv \in InputAttrs(i) :
        AboveThreshold(kv) => \E n \in StoreCalls(i, kv.key) : stores[n].content = kv.val

RetrieveNow(c) ==
    IF c.backend = "vault" THEN VaultRetrieve(vfiles, c.ref)
    ELSE BackendRetrieve(bfiles, c.ref)

\* C17: concurrent identical stores.  In every interleaving of two Store
\* calls with the same payload, each call returns no error and a valid
\* reference; once both have returned, Retrieve of either reference returns
\* the whole payload; and a Retrieve running concurrently with them never
\* returns bytes other than the whole payload.
C17_ConcurrentIdenticalStores ==
    /\ \A i \in Storers :
           calls[i].pc = "done" => (calls[i].err = NoErr /\ calls[i].ref = RefOf(calls[i]))
    /\ (\A i \in Storers : calls[i].pc = "done") =>
           \A i \in Storers :
               RetrieveNow(calls[i]) = [data |-> calls[i].content, err |-> NoErr]
    /\ (calls[Retriever].pc = "done" /\ calls[Retriever].err = NoErr) =>
           calls[Retriever].data = calls[Retriever].content

(***************************************************************************)
(* Properties of the offload loop.                                         *)
(***************************************************************************)
\* the step is a turn of the offload loop: a Store call was made
OffloadStep == Len(stores') = Len(stores) + 1

\* a Store call of this ConsumeTraces call has failed
SomeStoreFailed == \E n \in 1..Len(stores) : stores[n].err # NoErr

\* attribute kv of span i comes after the entry of Store call n: later in
\* the same span, or in a later span
AfterCall(n, i, kv) ==
    \/ i > stores[n].span
    \/ /\ i = stores[n].span
       /\ IndexOf(input[i].attrs, kv.key) > IndexOf(input[i].attrs, stores[n].key)

\* every attribute to offload that comes after a failed Store call was
\* passed to Store by a later call
LaterEntriesStored ==
    \A n \in 1..Len(stores) :
        stores[n].err # NoErr =>
            \A i \in 1..Len(input) : \A kv \in InputAttrs(i) :
                (AboveThreshold(kv) /\ AfterCall(n, i, kv)) =>
                    \E m \in (n + 1)..Len(stores) :
                        /\ stores[m].span = i
                        /\ stores[m].key = kv.key
                        /\ stores[m].content = kv.val

RECURSIVE CallsOfSpan(_, _)
CallsOfSpan(calls_, i) ==
    IF calls_ = <<>> THEN <<>>
    ELSE (IF Head(calls_).span = i /\ Head(calls_).event = 0
          THEN <<[key |-> Head(calls_).key, content |-> Head(calls_).content]>>
          ELSE <<>>) \o CallsOfSpan(Tail(calls_), i)

\* the attributes of span i that were to offload when the batch arrived, in
\* the order of the span, as key and content
RECURSIVE ToOffload(_)
ToOffload(attrs) ==
    IF attrs = <<>> THEN <<>>
    ELSE (IF AboveThreshold(Head(attrs))
          THEN <<[key |-> Head(attrs).key, content |-> Head(attrs).val]>>
          ELSE <<>>) \o ToOffload(Tail(attrs))

\* C23: snapshot before mutate.  The step in which vaultSpan scans a span's
\* attributes changes no attribute and makes no Store call; every change of
\* an attribute happens in a turn of the offload loop, after the scan, and
\* leaves the list of pending entries as the scan made it; and when the call
\* has returned, the Store calls made for each span are exactly the
\* attributes of the span that were to offload at scan time, with the content
\* they had then, each once (a <k>.vault_ref added by a rewrite is not
\* offloaded in that pass, even when its key is in keys).
C23_SnapshotBeforeMutate ==
    [][/\ (pc = "span" /\ pc' = "offload") => (td' = td /\ stores' = stores)
       /\ (pc # "idle" /\ td' # td) =>
              (pc = "offload" /\ pc' = "offload" /\ toVault' = toVault)
       /\ pc' = "done" =>
              \A i \in 1..Len(input') :
                  (CallsOfSpan(stores, i) = ToOffload(input[i].attrs))']_vars

\* keys holds p and p.vault_ref; a span had p alone, p was stored and the
\* rewrite added p.vault_ref with a value of at least size_threshold bytes:
\* the one Store call of the span is the one for p
C23_Witness ==
    /\ Done
    /\ RewritingMode
    /\ cfg.keys = {"p", "p.vault_ref"}
    /\ Len(input) >= 1
    /\ Len(input[1].attrs) = 1
    /\ input[1].attrs[1].key = "p"
    /\ Stored(1, "p")
    /\ Has(Out[1].attrs, "p.vault_ref")
    /\ AboveThreshold([key |-> "p.vault_ref", val |-> Get(Out[1].attrs, "p.vault_ref")])
    /\ CallsOfSpan(stores, 1) = <<[key |-> "p", content |-> input[1].attrs[1].val]>>

(***************************************************************************)
(* Properties of the construction.                                         *)
(***************************************************************************)
SupportedBackends == {"filesystem"}

\* C24: backend selection fails fast.  With a storage backend tag outside
\* the supported set the processor is never constructed: construction has
\* not run yet or has returned an error, no batch is accepted and no Store
\* call is made.
C24_BackendSelectionFailsFast ==
    cfg.backend \notin SupportedBackends =>
        /\ pc \in {"config", "failed"}
        /\ stores = <<>>
        /\ sink = <<>>

(***************************************************************************)
(* Properties of the forwarded references.                                 *)
(***************************************************************************)
\* C25: store before rewrite before forward.  When the batch is forwarded,
\* every reference the processor wrote for an attribute k of a span, found
\* in <k> or in <k>.vault_ref of the forwarded span, resolves through
\* Retrieve to exactly the value k had in the incoming batch.
C25_ForwardedRefsResolve ==
    Done =>
        \A i \in 1..Len(input) : \A kv \in InputAttrs(i) :
            Stored(i, kv.key) =>
                \A key \in {kv.key, RefKey(kv.key)} :
                    (Has(Out[i].attrs, key) /\
                     Get(Out[i].attrs, key) = StoredRef(i, kv.key)) =>
                        VaultRetrieve(vfiles, Get(Out[i].attrs, key)) =
                            [data |-> kv.val, err |-> NoErr]

====
